---- MODULE Spec2Model ----
(***************************************************************************)
(* A model of ecommerce.js: products (plain, perishable, shippable), a    *)
(* cart, a customer balance and the checkout procedure.  Cart.add is one   *)
(* step; checkout is modelled statement by statement (emptiness check,     *)
(* one loop iteration per cart item, pricing and payment, shipment,        *)
(* receipt), so that the state a failing checkout leaves behind is the     *)
(* state the code leaves behind when the exception propagates.             *)
(*                                                                         *)
(* Dates are abstracted to integer days; errors, which the code raises as  *)
(* Error objects that differ only in their message, are named by kind.     *)
(***************************************************************************)
EXTENDS Integers, Sequences, FiniteSets

\* ---------------------------------------------------------------- bounds
MaxCart == 2        \* Cart.add is not called on a cart of MaxCart items
MaxQty == 2         \* quantities passed to Cart.add range over -1..MaxQty
MaxCheckouts == 2   \* number of checkout calls in one run
MaxDay == 1         \* the clock runs from day 0 to day MaxDay

\* ------------------------------------------------------ program constants
ShippingFee == 30   \* checkout: cart.getTotalWeight() > 0 ? 30 : 0
ExpiryDay == 0      \* the demo's expiry date "2025-08-01", as a day number
DemoBalance == 1000 \* new Customer("Ali", 1000)

\* The demo's products: class, constructor arguments.
Catalog ==
    [ Cheese      |-> [class |-> "PerishableProduct", price |-> 100,
                       quantity |-> 5, expiryDate |-> ExpiryDay, weight |-> 200],
      Biscuits    |-> [class |-> "PerishableProduct", price |-> 150,
                       quantity |-> 2, expiryDate |-> ExpiryDay, weight |-> 700],
      TV          |-> [class |-> "ShippableProduct", price |-> 300,
                       quantity |-> 10, expiryDate |-> 0, weight |-> 10000],
      ScratchCard |-> [class |-> "Product", price |-> 50,
                       quantity |-> 10, expiryDate |-> 0, weight |-> 0] ]

Products == DOMAIN Catalog

\* Stock on hand and balance are constructor arguments: the demo's, or a shop
\* that is nearly sold out with a customer who is nearly broke.
Constructions ==
    { [stock |-> [p \in Products |-> Catalog[p].quantity], balance |-> DemoBalance],
      [stock |-> [p \in Products |-> 1], balance |-> 200] }

Quantities == (0 - 1)..MaxQty

VARIABLES
    stock,      \* product -> Product.quantity
    balance,    \* Customer.balance
    items,      \* Cart.items: sequence of CartItem [product, quantity]
    today,      \* the day new Date() returns
    pc,         \* position of the caller: "idle" or a statement of checkout
    idx,        \* checkout's loop position in cart.getItems()
    subtotal, shippingFee, total,   \* checkout's locals
    out,        \* console blocks printed by the call in progress / last call
    call,       \* the last call made: its operation and arguments
    err,        \* the error kind it threw; "none", or "running" while in checkout
    pre,        \* stock, balance, items, today when the last call began
    nCheckouts  \* number of checkout calls begun

vars == <<stock, balance, items, today, pc, idx, subtotal, shippingFee, total,
          out, call, err, pre, nCheckouts>>

\* ------------------------------------------------------- Product classes
\* mutant: PerishableProduct does not override isExpired
isExpired_base(p, now) == FALSE

\* Product.isExpired / PerishableProduct.isExpired
isExpired(p, now) ==
    IF Catalog[p].class = "PerishableProduct"
    THEN Catalog[p].expiryDate < now
    ELSE FALSE

\* Product.isShippable and its overrides
isShippable(p) ==
    Catalog[p].class \in {"PerishableProduct", "ShippableProduct"}

\* Product.getWeight and its overrides
getWeight(p) ==
    IF Catalog[p].class = "Product" THEN 0 ELSE Catalog[p].weight

\* mutant: the test is <= instead of <
reduceQuantity_le(s, p, qty) ==
    IF s[p] <= qty
    THEN [err |-> "OutOfStock", stock |-> s]
    ELSE [err |-> "none", stock |-> [s EXCEPT ![p] = s[p] - qty]]

\* mutant: the stock is reduced before the test
reduceQuantity_reduceFirst(s, p, qty) ==
    IF s[p] < qty
    THEN [err |-> "OutOfStock", stock |-> [s EXCEPT ![p] = s[p] - qty]]
    ELSE [err |-> "none", stock |-> [s EXCEPT ![p] = s[p] - qty]]

\* Product.reduceQuantity: the error thrown ("none" if none) and the stock after
reduceQuantity(s, p, qty) ==
    IF s[p] < qty
    THEN [err |-> "OutOfStock", stock |-> s]
    ELSE [err |-> "none", stock |-> [s EXCEPT ![p] = s[p] - qty]]

\* ------------------------------------------------------------- CartItem
\* mutant: the quantity is left out of the line total
itemTotalPrice_unit(item) == Catalog[item.product].price

\* CartItem.getTotalPrice
itemTotalPrice(item) == Catalog[item.product].price * item.quantity

\* CartItem.getWeight
itemWeight(item) == getWeight(item.product) * item.quantity

\* CartItem.isShippable
itemIsShippable(item) == isShippable(item.product)

\* CartItem.isExpired
itemIsExpired(item, now) == isExpired(item.product, now)

\* ----------------------------------------------------------------- Cart
\* Cart.getSubtotal: the reduce over items, from 0
RECURSIVE getSubtotal(_)
getSubtotal(its) ==
    IF its = <<>> THEN 0
    ELSE getSubtotal(SubSeq(its, 1, Len(its) - 1)) + itemTotalPrice(its[Len(its)])

\* mutant: the filter is lost
getShippableItems_all(its) == its

\* Cart.getShippableItems
getShippableItems(its) == SelectSeq(its, itemIsShippable)

\* the reduce over item.getWeight(), from 0 (Cart.getTotalWeight, ShippingService.ship)
RECURSIVE sumWeight(_)
sumWeight(its) ==
    IF its = <<>> THEN 0
    ELSE sumWeight(SubSeq(its, 1, Len(its) - 1)) + itemWeight(its[Len(its)])

\* Cart.getTotalWeight
getTotalWeight(its) == sumWeight(getShippableItems(its))

\* mutant: the emptiness test is lost
isEmpty_never(its) == FALSE

\* Cart.isEmpty
isEmpty(its) == Len(its) = 0

\* mutant: the test is >= instead of >
cartAdd_ge(its, s, p, qty) ==
    IF qty >= s[p]
    THEN [err |-> "InsufficientStock", items |-> its]
    ELSE [err |-> "none", items |-> Append(its, [product |-> p, quantity |-> qty])]

\* Cart.add: the error thrown and the items after
cartAdd(its, s, p, qty) ==
    IF qty > s[p]
    THEN [err |-> "InsufficientStock", items |-> its]
    ELSE [err |-> "none", items |-> Append(its, [product |-> p, quantity |-> qty])]

\* ------------------------------------------------------------- Customer
\* mutant: pay debits without testing the balance
pay_unchecked(b, amount) == [err |-> "none", balance |-> b - amount]

\* Customer.pay: the error thrown and the balance after
pay(b, amount) ==
    IF b < amount
    THEN [err |-> "InsufficientBalance", balance |-> b]
    ELSE [err |-> "none", balance |-> b - amount]

\* ------------------------------------------------------ ShippingService
\* ShippingService.ship: the block it prints, one line per item given and the
\* total weight in grams (its rendering in kilograms is not modelled)
shipmentNotice(its) ==
    [block |-> "shipment",
     lines |-> [k \in 1..Len(its) |->
                  <<its[k].quantity, its[k].product, itemWeight(its[k])>>],
     totalWeight |-> sumWeight(its)]

\* checkout's receipt block
receipt(its, sub, fee, tot, bal) ==
    [block |-> "receipt",
     lines |-> [k \in 1..Len(its) |->
                  <<its[k].quantity, its[k].product, itemTotalPrice(its[k])>>],
     subtotal |-> sub, shipping |-> fee, amount |-> tot, balance |-> bal]

\* checkout's shippingFee
checkoutShippingFee(its) == IF getTotalWeight(its) > 0 THEN ShippingFee ELSE 0

\* what a call finds when it begins
Snapshot == [stock |-> stock, balance |-> balance, items |-> items, today |-> today]

\* The demo's cart: 2 x Cheese, 1 x Biscuits, 1 x Scratch Card.
DemoCart ==
    << [product |-> "Cheese", quantity |-> 2],
       [product |-> "Biscuits", quantity |-> 1],
       [product |-> "ScratchCard", quantity |-> 1] >>

\* The demo's next cart.add call, when the cart holds the calls before it.
DemoAdds(its, p, qty) ==
    /\ Len(its) < Len(DemoCart)
    /\ its = SubSeq(DemoCart, 1, Len(its))
    /\ [product |-> p, quantity |-> qty] = DemoCart[Len(its) + 1]

\* ------------------------------------------------------------------ Init
\* The state after the products, the customer and the cart are constructed.
Init ==
    /\ \E c \in Constructions : stock = c.stock /\ balance = c.balance
    /\ items = <<>>
    /\ today = 0
    /\ pc = "idle"
    /\ idx = 0
    /\ subtotal = 0 /\ shippingFee = 0 /\ total = 0
    /\ out = <<>>
    /\ call = [op |-> "none"]
    /\ err = "none"
    /\ pre = [stock |-> stock, balance |-> balance, items |-> <<>>, today |-> 0]
    /\ nCheckouts = 0

\* --------------------------------------------------------------- actions
\* The clock advances, between two calls or between two iterations of checkout's
\* loop (each isExpired call reads new Date() afresh).
Tick ==
    /\ pc \in {"idle", "loop"}
    /\ today < MaxDay
    /\ today' = today + 1
    /\ UNCHANGED <<stock, balance, items, pc, idx, subtotal, shippingFee, total,
                   out, call, err, pre, nCheckouts>>

\* cart.add(product, quantity): any product and quantity while the cart holds
\* fewer than MaxCart items, and the demo's calls whatever the cart's length
Add ==
    /\ pc = "idle"
    /\ \E p \in Products, qty \in Quantities :
         LET r == cartAdd(items, stock, p, qty) IN
         /\ Len(items) < MaxCart \/ DemoAdds(items, p, qty)
         /\ items' = r.items
         /\ err' = r.err
         /\ call' = [op |-> "add", product |-> p, quantity |-> qty]
    /\ pre' = Snapshot
    /\ out' = <<>>
    /\ UNCHANGED <<stock, balance, today, pc, idx, subtotal, shippingFee, total,
                   nCheckouts>>

\* checkout(customer, cart): entry and the cart.isEmpty() test
CheckoutBegin ==
    /\ pc = "idle"
    /\ nCheckouts < MaxCheckouts
    /\ nCheckouts' = nCheckouts + 1
    /\ pre' = Snapshot
    /\ out' = <<>>
    /\ call' = [op |-> "checkout"]
    /\ IF isEmpty(items)
       THEN /\ pc' = "idle"
            /\ err' = "EmptyCart"
            /\ idx' = 0
       ELSE /\ pc' = "loop"
            /\ err' = "running"
            /\ idx' = 1
    /\ UNCHANGED <<stock, balance, items, today, subtotal, shippingFee, total>>

\* one iteration of the for loop over cart.getItems()
CheckoutItem ==
    /\ pc = "loop"
    /\ idx <= Len(items)
    /\ LET item == items[idx] IN
       IF itemIsExpired(item, today)
       THEN /\ pc' = "idle"
            /\ err' = "ExpiredProduct"
            /\ UNCHANGED <<stock, idx>>
       ELSE LET r == reduceQuantity(stock, item.product, item.quantity) IN
            /\ stock' = r.stock
            /\ IF r.err # "none"
               THEN /\ pc' = "idle"
                    /\ err' = r.err
                    /\ UNCHANGED idx
               ELSE /\ idx' = idx + 1
                    /\ UNCHANGED <<pc, err>>
    /\ UNCHANGED <<balance, items, today, subtotal, shippingFee, total, out, call,
                   pre, nCheckouts>>

\* subtotal, shippingFee, total and customer.pay(total)
CheckoutPay ==
    /\ pc = "loop"
    /\ idx > Len(items)
    /\ LET sub == getSubtotal(items)
           fee == checkoutShippingFee(items)
           r == pay(balance, sub + fee)
       IN /\ subtotal' = sub
          /\ shippingFee' = fee
          /\ total' = sub + fee
          /\ balance' = r.balance
          /\ IF r.err # "none"
             THEN /\ pc' = "idle"
                  /\ err' = r.err
             ELSE /\ pc' = "ship"
                  /\ UNCHANGED err
    /\ UNCHANGED <<stock, items, today, idx, out, call, pre, nCheckouts>>

\* the shipment of the shippable items
CheckoutShip ==
    /\ pc = "ship"
    /\ LET shippableItems == getShippableItems(items) IN
       out' = IF Len(shippableItems) > 0
              THEN Append(out, shipmentNotice(shippableItems))
              ELSE out
    /\ pc' = "receipt"
    /\ UNCHANGED <<stock, balance, items, today, idx, subtotal, shippingFee, total,
                   call, err, pre, nCheckouts>>

\* the receipt; checkout returns
CheckoutReceipt ==
    /\ pc = "receipt"
    /\ out' = Append(out, receipt(items, subtotal, shippingFee, total, balance))
    /\ pc' = "idle"
    /\ err' = "none"
    /\ UNCHANGED <<stock, balance, items, today, idx, subtotal, shippingFee, total,
                   call, pre, nCheckouts>>

Next ==
    \/ Tick
    \/ Add
    \/ CheckoutBegin
    \/ CheckoutItem
    \/ CheckoutPay
    \/ CheckoutShip
    \/ CheckoutReceipt

Spec == Init /\ [][Next]_vars

\* ---------------------------------------------- notions the claims speak of
\* Sums and sub-sequences written from the claims' words, independently of the
\* operators above, which follow the code.
RECURSIVE SumFn(_, _)
SumFn(f, S) ==
    IF S = {} THEN 0
    ELSE LET k == CHOOSE x \in S : TRUE IN f[k] + SumFn(f, S \ {k})

\* sum over all items of price x quantity
PriceSum(its) ==
    SumFn([k \in 1..Len(its) |-> Catalog[its[k].product].price * its[k].quantity],
          1..Len(its))

\* sum over the shippable items of weight x quantity
ShippableWeightSum(its) ==
    SumFn([k \in 1..Len(its) |->
             IF Catalog[its[k].product].class = "Product" THEN 0
             ELSE Catalog[its[k].product].weight * its[k].quantity],
          1..Len(its))

\* total quantity of product p in the items at positions before n
QtyBefore(its, n, p) ==
    SumFn([k \in 1..Len(its) |-> IF its[k].product = p THEN its[k].quantity ELSE 0],
          {k \in 1..Len(its) : k < n})

\* the shippable items, in cart order
RECURSIVE ShippableOnes(_)
ShippableOnes(its) ==
    IF its = <<>> THEN <<>>
    ELSE (IF Catalog[Head(its).product].class = "Product" THEN <<>> ELSE <<Head(its)>>)
         \o ShippableOnes(Tail(its))

Blocks(kind) == {k \in 1..Len(out) : out[k].block = kind}

CheckoutDone == call.op = "checkout" /\ pc = "idle"
CheckoutFailedInLoop == CheckoutDone /\ err \in {"ExpiredProduct", "OutOfStock"}
CheckoutSucceeded == CheckoutDone /\ err = "none"

\* ------------------------------------------------------------------ claims

\* C1: a product's quantity-on-hand is never negative and never grows from one
\* state to the next, and it changes only in an iteration of checkout's item loop
\* (the reduceQuantity call).
C1_StockOnlyDecreasesInCheckoutLoop ==
    [][ /\ \A p \in Products :
             stock[p] >= 0 /\ stock'[p] >= 0 /\ stock'[p] <= stock[p]
        /\ (stock' # stock => pc = "loop" /\ idx <= Len(items)) ]_vars

\* C2: the customer's balance is never negative and never grows from one state to
\* the next; it changes only in Customer.pay, and only when the amount is not
\* greater than the balance.
C2_BalanceOnlyDecreasesInPay ==
    [][ /\ balance >= 0 /\ balance' >= 0 /\ balance' <= balance
        /\ (balance' # balance =>
              pc = "loop" /\ idx > Len(items) /\ total' <= balance) ]_vars

\* C3: checkout on a cart with no items fails with EmptyCart, runs no further
\* statement, leaves stock, balance and cart as they were and prints nothing.
C3_EmptyCartFailsWithoutEffect ==
    (call.op = "checkout" /\ pre.items = <<>>) =>
        /\ pc = "idle"
        /\ err = "EmptyCart"
        /\ stock = pre.stock
        /\ balance = pre.balance
        /\ items = pre.items
        /\ out = <<>>

\* C3 witness: a checkout of an empty cart has returned, with goods bought before.
C3_Witness ==
    /\ CheckoutDone /\ err = "EmptyCart" /\ pre.items = <<>>

\* the positions of the items whose product's expiry date is before day now
ExpiredAt(its, now) ==
    {k \in 1..Len(its) :
        /\ Catalog[its[k].product].class = "PerishableProduct"
        /\ Catalog[its[k].product].expiryDate < now}

FirstExpired(its, now) ==
    CHOOSE k \in ExpiredAt(its, now) : \A j \in ExpiredAt(its, now) : k <= j

\* C4, as stated: a checkout of a cart holding an item that is expired when
\* checkout is called fails with ExpiredProduct, whatever the stock levels.
C4_ExpiredItemAlwaysExpiredProduct ==
    (CheckoutDone /\ ExpiredAt(pre.items, pre.today) # {}) => err = "ExpiredProduct"

\* C4, amended: such a checkout never gets past the first expired item and fails;
\* it fails with OutOfStock only at an item that precedes the first expired item
\* and asks for more than the stock on hand when the loop reaches it, and with
\* ExpiredProduct otherwise, at an expired item.
C4_ExpiredItemFailsCheckout ==
    (call.op = "checkout" /\ ExpiredAt(pre.items, pre.today) # {}) =>
        LET f == FirstExpired(pre.items, pre.today) IN
        /\ pc \in {"idle", "loop"}
        /\ idx <= f
        /\ pc = "idle" => err \in {"ExpiredProduct", "OutOfStock"}
        /\ (pc = "idle" /\ err = "OutOfStock") =>
              /\ idx < f
              /\ stock[items[idx].product] < items[idx].quantity
        /\ (pc = "idle" /\ err = "ExpiredProduct") => idx \in ExpiredAt(items, today)

\* C4 witness: ExpiredProduct thrown at the second item, after the first item's
\* stock was reduced.
C4_Witness ==
    /\ CheckoutDone /\ err = "ExpiredProduct"
    /\ ExpiredAt(pre.items, pre.today) # {}
    /\ FirstExpired(pre.items, pre.today) = 2
    /\ idx = 2
    /\ stock # pre.stock

\* C5: when the item loop completes and subtotal + shipping fee is greater than
\* the balance, checkout fails with InsufficientBalance, the balance is unchanged,
\* nothing is printed, and every product's stock stays reduced by the quantities
\* of the cart's items of that product.
C5_InsufficientBalanceKeepsDecrements ==
    ( /\ CheckoutDone
      /\ err \notin {"EmptyCart", "ExpiredProduct", "OutOfStock"}
      /\ PriceSum(pre.items)
           + (IF ShippableWeightSum(pre.items) > 0 THEN ShippingFee ELSE 0)
         > pre.balance ) =>
        /\ err = "InsufficientBalance"
        /\ balance = pre.balance
        /\ out = <<>>
        /\ items = pre.items
        /\ \A p \in Products :
             stock[p] = pre.stock[p] - QtyBefore(pre.items, Len(pre.items) + 1, p)

\* C5 witness: InsufficientBalance after stock was reduced.
C5_Witness ==
    /\ CheckoutDone /\ err = "InsufficientBalance"
    /\ \E p \in Products : stock[p] < pre.stock[p]

\* C6: after a checkout that succeeds, subtotal is the sum of price x quantity over
\* all items, the shipping fee is 30 if the sum of weight x quantity over the
\* shippable items is > 0 and 0 otherwise, and the balance is the balance before
\* minus subtotal + fee.
TotalsOnSuccess ==
    CheckoutSucceeded =>
        /\ subtotal = PriceSum(pre.items)
        /\ shippingFee = (IF ShippableWeightSum(pre.items) > 0 THEN 30 ELSE 0)
        /\ total = subtotal + shippingFee
        /\ balance = pre.balance - (subtotal + shippingFee)

DemoCheckoutSucceeded ==
    CheckoutSucceeded /\ pre.items = DemoCart /\ pre.balance = DemoBalance

\* C6, as stated: ... and the demo's cart (2 x 100, 1 x 150, 1 x 50) with balance
\* 1000 gives subtotal 450, fee 30, total 480, balance 520.
C6_TotalsOnSuccessDemo450 ==
    /\ TotalsOnSuccess
    /\ DemoCheckoutSucceeded =>
         subtotal = 450 /\ shippingFee = 30 /\ total = 480 /\ balance = 520

\* C6, amended: ... and the demo's cart with balance 1000 gives subtotal 400,
\* fee 30, total 430, balance 570.
C6_TotalsOnSuccessDemo400 ==
    /\ TotalsOnSuccess
    /\ DemoCheckoutSucceeded =>
         subtotal = 400 /\ shippingFee = 30 /\ total = 430 /\ balance = 570

\* C6 witness: the demo's checkout has succeeded (shippable and non-shippable
\* items, fee charged).
C6_Witness ==
    /\ DemoCheckoutSucceeded
    /\ shippingFee = 30
    /\ \E k \in 1..Len(items) : Catalog[items[k].product].class = "Product"
    /\ \E k \in 1..Len(items) : Catalog[items[k].product].class # "Product"
    /\ balance < pre.balance

\* C7: after a checkout that succeeds, a shipment notice has been printed if and
\* only if the cart holds a shippable item; it lists exactly the cart's shippable
\* items in cart order; it is printed after the payment and before the receipt;
\* a cart of non-shippable items only pays no shipping fee and gets no notice.
C7_ShipmentOnSuccess ==
    /\ CheckoutSucceeded =>
         LET sh == ShippableOnes(pre.items) IN
         /\ (Blocks("shipment") # {}) <=>
               (\E k \in 1..Len(pre.items) :
                    Catalog[pre.items[k].product].class # "Product")
         /\ sh # <<>> =>
               /\ Len(out) = 2
               /\ out[1].block = "shipment" /\ out[2].block = "receipt"
               /\ out[1].lines =
                    [k \in 1..Len(sh) |->
                       <<sh[k].quantity, sh[k].product,
                         Catalog[sh[k].product].weight * sh[k].quantity>>]
         /\ sh = <<>> =>
               /\ Len(out) = 1 /\ out[1].block = "receipt"
               /\ shippingFee = 0
    /\ pc \in {"loop", "ship"} => out = <<>>
    /\ \A k \in Blocks("shipment") :
         /\ call.op = "checkout" /\ pc \in {"receipt", "idle"}
         /\ balance = pre.balance - total
         /\ \A j \in Blocks("receipt") : k < j

\* C7 witness: a successful checkout of a non-shippable item followed by a
\* shippable one, with the notice and the receipt printed.
C7_Witness ==
    /\ CheckoutSucceeded
    /\ Len(items) >= 2
    /\ Catalog[items[1].product].class = "Product"
    /\ Catalog[items[2].product].class # "Product"
    /\ Blocks("shipment") = {1} /\ Blocks("receipt") = {2}

\* C8: Cart.add fails with InsufficientStock exactly when the quantity is greater
\* than the product's stock at the call, and then leaves the cart unchanged;
\* otherwise it appends exactly the item (product, quantity).  Stock and balance
\* are unchanged either way, and the items already in the cart play no part.
C8_CartAdd ==
    call.op = "add" =>
        /\ err \in {"none", "InsufficientStock"}
        /\ (err = "InsufficientStock") <=> (call.quantity > pre.stock[call.product])
        /\ err = "InsufficientStock" => items = pre.items
        /\ err = "none" =>
              items = pre.items \o <<[product |-> call.product,
                                      quantity |-> call.quantity]>>
        /\ stock = pre.stock
        /\ balance = pre.balance
        /\ pc = "idle" /\ out = <<>>

\* C8 witness: an add succeeded although the cart already asked for that product
\* and the two quantities together exceed its stock.
C8_Witness ==
    /\ call.op = "add" /\ err = "none"
    /\ \E k \in 1..Len(pre.items) :
         /\ pre.items[k].product = call.product
         /\ pre.items[k].quantity > 0
         /\ pre.items[k].quantity + call.quantity > stock[call.product]

\* C9: reduceQuantity(q), as checkout's loop calls it on an unexpired item, fails
\* with OutOfStock and leaves the stock unchanged when q is greater than the
\* product's stock; otherwise the product's stock becomes the stock minus q, and
\* no other product's stock changes.
C9_ReduceQuantity ==
    [][ ( /\ pc = "loop" /\ idx <= Len(items)
          /\ today' = today
          /\ idx \notin ExpiredAt(items, today) ) =>
        LET p == items[idx].product
            q == items[idx].quantity
        IN IF q > stock[p]
           THEN err' = "OutOfStock" /\ pc' = "idle" /\ stock' = stock
           ELSE /\ err' = "running" /\ pc' = "loop"
                /\ stock' = [stock EXCEPT ![p] = stock[p] - q] ]_vars

\* C9 witness: OutOfStock thrown for the second item after the first item's
\* reduction succeeded.
C9_Witness ==
    /\ CheckoutDone /\ err = "OutOfStock"
    /\ idx = 2
    /\ \E p \in Products : stock[p] < pre.stock[p]

\* C10: when checkout fails at the item at position idx, with ExpiredProduct or
\* OutOfStock, exactly the reductions of the items before idx are applied, the
\* balance is unchanged and nothing is printed; no failing checkout prints.
C10_FailureInLoopKeepsEarlierReductions ==
    /\ CheckoutFailedInLoop =>
         /\ idx \in 1..Len(pre.items)
         /\ \A p \in Products :
              stock[p] = pre.stock[p] - QtyBefore(pre.items, idx, p)
         /\ balance = pre.balance
         /\ items = pre.items
         /\ out = <<>>
    /\ (CheckoutDone /\ err # "none") => out = <<>>

\* C10 witness: a checkout failed at the second item of the same product as the
\* first, whose reduction remains applied.
C10_Witness ==
    /\ CheckoutFailedInLoop
    /\ idx = 2
    /\ items[1].product = items[2].product
    /\ stock[items[1].product] = pre.stock[items[1].product] - items[1].quantity
    /\ items[1].quantity > 0

====
